---- MODULE Spec2Model ----
(***************************************************************************)
(* IP longest-prefix-match lookup of tutorial-01: the binary trie          *)
(* (ip_bin_trie.rs), the prefix BST (ip_bst.rs) and the harness that       *)
(* feeds both (main.rs); the MAC address table of tutorial-05 (main.rs), a *)
(* hash table with address folding and open double hashing; the multicast  *)
(* filter simulator of tutorial-03 (main.rs), a CRC32-indexed bit table in *)
(* front of an exact set of subscribed addresses.                          *)
(*                                                                         *)
(* A u32 is a bit vector: a function 1..Bits -> {0,1} whose index 1 is     *)
(* bit 31 (the most significant bit) and index 32 is bit 0.  Option<T> is  *)
(* a sequence of length 0 (None) or 1 (Some).                              *)
(***************************************************************************)
EXTENDS Integers, Sequences, FiniteSets, TLC

VARIABLES trie, bst, log, panicked, results,
          ht, expect, gone, last,
          sim, joined, call

\* tutorial-01: the two structures, the routes inserted so far, whether an
\* insert panicked, the lookups of the harness
lpmVars == <<trie, bst, log, panicked, results>>

\* tutorial-05: the HashTable; per MAC the port of its latest successful
\* insert when no delete of it was called since, per MAC whether its latest
\* delete returned true with no successful insert of it since, and the
\* latest call with what it returned
htVars == <<ht, expect, gone, last>>

\* tutorial-03: the MulticastFilterSimulator, the addresses subscribe was
\* called with, and the latest call
mcVars == <<sim, joined, call>>

vars == <<lpmVars, htVars, mcVars>>

\* width of an address, the literal 32 of the loops and of the mask
Bits == 32

\* number of routes a run inserts
MaxRoutes == 3

None == <<>>
Some(x) == <<x>>

----------------------------------------------------------------------------
\* u32 arithmetic on bit vectors

Zero32 == [k \in 1..Bits |-> 0]
AllOnes == [k \in 1..Bits |-> 1]

\* (x >> i) & 1 for i in 0..31
BitAt(x, i) == x[Bits - i]

\* x << n for n in 0..31
Shl(x, n) == [k \in 1..Bits |-> IF k + n <= Bits THEN x[k + n] ELSE 0]

\* x & y
BitAnd(x, y) == [k \in 1..Bits |-> x[k] * y[k]]

\* x | y
BitOr(x, y) == [k \in 1..Bits |-> IF x[k] + y[k] > 0 THEN 1 ELSE 0]

\* x < y on u32: the first bit that differs, from bit 31 down, is 0 in x
Less32(x, y) ==
    \E k \in 1..Bits :
        /\ x[k] < y[k]
        /\ \A j \in 1..(k - 1) : x[j] = y[j]

\* a - b on u8 as a build without overflow checks computes it
WrappingSubU8(a, b) == (a - b) % 256

----------------------------------------------------------------------------
\* ip_bin_trie.rs

TrieNew == [left |-> None, right |-> None, next_hop |-> None]

\* faulty variant: a next_hop already on the final node is kept
RECURSIVE TrieInsertFromKeep(_, _, _, _, _)
TrieInsertFromKeep(curr, prefix, i, lo, next_hop) ==
    IF i < lo
    THEN IF curr.next_hop = None
         THEN [curr EXCEPT !.next_hop = Some(next_hop)]
         ELSE curr
    ELSE IF BitAt(prefix, i) = 0
         THEN LET child == IF curr.left = None THEN TrieNew ELSE curr.left[1]
              IN [curr EXCEPT !.left =
                     Some(TrieInsertFromKeep(child, prefix, i - 1, lo, next_hop))]
         ELSE LET child == IF curr.right = None THEN TrieNew ELSE curr.right[1]
              IN [curr EXCEPT !.right =
                     Some(TrieInsertFromKeep(child, prefix, i - 1, lo, next_hop))]

\* the loop of insert from bit index i down to bit index lo, then line 30
RECURSIVE TrieInsertFrom(_, _, _, _, _)
TrieInsertFrom(curr, prefix, i, lo, next_hop) ==
    IF i < lo
    THEN [curr EXCEPT !.next_hop = Some(next_hop)]
    ELSE IF BitAt(prefix, i) = 0
         THEN LET child == IF curr.left = None THEN TrieNew ELSE curr.left[1]
              IN [curr EXCEPT !.left =
                     Some(TrieInsertFrom(child, prefix, i - 1, lo, next_hop))]
         ELSE LET child == IF curr.right = None THEN TrieNew ELSE curr.right[1]
              IN [curr EXCEPT !.right =
                     Some(TrieInsertFrom(child, prefix, i - 1, lo, next_hop))]

\* faulty variant: the range starts one bit too high (33 - prefix_len)
TrieInsertShort(self, prefix, prefix_len, next_hop) ==
    TrieInsertFrom(self, prefix, Bits - 1,
                   WrappingSubU8(Bits, prefix_len) + 1, next_hop)

\* for i in (32 - prefix_len..32).rev(): an empty range when the start is
\* 32 or more
TrieInsert(self, prefix, prefix_len, next_hop) ==
    TrieInsertFrom(self, prefix, Bits - 1,
                   WrappingSubU8(Bits, prefix_len), next_hop)

\* faulty variant: the check after the loop is left out
TrieLookupEndNoCheck(curr, result, links) ==
    [result |-> result, links |-> links]

\* the check after the loop, lines 58-62; links are the child links followed
TrieLookupEnd(curr, result, links) ==
    [result |-> IF curr.next_hop # None THEN curr.next_hop ELSE result,
     links |-> links]

\* the loop of lookup at bit index i
RECURSIVE TrieLookupFrom(_, _, _, _, _)
TrieLookupFrom(curr, ip, i, result, links) ==
    IF i < 0
    THEN TrieLookupEnd(curr, result, links)
    ELSE LET r == IF curr.next_hop # None THEN curr.next_hop ELSE result
             bit == BitAt(ip, i)
             next == IF bit = 0 THEN curr.left ELSE curr.right
         IN IF next = None
            THEN TrieLookupEnd(curr, r, links)
            ELSE TrieLookupFrom(next[1], ip, i - 1, r, Append(links, bit))

\* faulty variant: the loop runs over (0..31).rev()
TrieWalkSkipTop(self, ip) == TrieLookupFrom(self, ip, Bits - 2, None, <<>>)

TrieWalk(self, ip) == TrieLookupFrom(self, ip, Bits - 1, None, <<>>)

TrieLookup(self, ip) == TrieWalk(self, ip).result

----------------------------------------------------------------------------
\* ip_bst.rs

BSTNew(prefix, prefix_len, next_hop) ==
    [prefix |-> prefix, prefix_len |-> prefix_len, next_hop |-> next_hop,
     left |-> None, right |-> None]

\* faulty variant: an equal prefix goes left (<= in place of <)
RECURSIVE BSTInsertLeq(_, _, _, _)
BSTInsertLeq(self, prefix, prefix_len, next_hop) ==
    IF ~Less32(self.prefix, prefix)
    THEN IF self.left # None
         THEN [self EXCEPT !.left =
                  Some(BSTInsertLeq(self.left[1], prefix, prefix_len, next_hop))]
         ELSE [self EXCEPT !.left = Some(BSTNew(prefix, prefix_len, next_hop))]
    ELSE IF self.right # None
         THEN [self EXCEPT !.right =
                  Some(BSTInsertLeq(self.right[1], prefix, prefix_len, next_hop))]
         ELSE [self EXCEPT !.right = Some(BSTNew(prefix, prefix_len, next_hop))]

\* faulty variant: a node with an equal prefix is overwritten in place
RECURSIVE BSTInsertReplace(_, _, _, _)
BSTInsertReplace(self, prefix, prefix_len, next_hop) ==
    IF prefix = self.prefix
    THEN [self EXCEPT !.prefix_len = prefix_len, !.next_hop = next_hop]
    ELSE IF Less32(prefix, self.prefix)
    THEN IF self.left # None
         THEN [self EXCEPT !.left =
                  Some(BSTInsertReplace(self.left[1], prefix, prefix_len, next_hop))]
         ELSE [self EXCEPT !.left = Some(BSTNew(prefix, prefix_len, next_hop))]
    ELSE IF self.right # None
         THEN [self EXCEPT !.right =
                  Some(BSTInsertReplace(self.right[1], prefix, prefix_len, next_hop))]
         ELSE [self EXCEPT !.right = Some(BSTNew(prefix, prefix_len, next_hop))]

\* Some(x) is written <<x>> around the recursive call
RECURSIVE BSTInsert(_, _, _, _)
BSTInsert(self, prefix, prefix_len, next_hop) ==
    LET below == Less32(prefix, self.prefix)
    IN CASE below /\ self.left # None ->
                [self EXCEPT !.left =
                    <<BSTInsert(self.left[1], prefix, prefix_len, next_hop)>>]
         [] below /\ self.left = None ->
                [self EXCEPT !.left = Some(BSTNew(prefix, prefix_len, next_hop))]
         [] ~below /\ self.right # None ->
                [self EXCEPT !.right =
                    <<BSTInsert(self.right[1], prefix, prefix_len, next_hop)>>]
         [] OTHER ->
                [self EXCEPT !.right = Some(BSTNew(prefix, prefix_len, next_hop))]

\* faulty variant: no special case for prefix_len = 0
BSTMaskNoZeroCase(prefix_len) ==
    Shl(AllOnes, WrappingSubU8(Bits, prefix_len) % Bits)

\* !0u32 << (32 - prefix_len); a build without overflow checks wraps the u8
\* subtraction and takes the shift amount modulo 32
BSTMask(prefix_len) ==
    IF prefix_len = 0
    THEN Zero32
    ELSE Shl(AllOnes, WrappingSubU8(Bits, prefix_len) % Bits)

BSTMatches(self, ip) ==
    LET mask == BSTMask(self.prefix_len)
    IN BitAnd(ip, mask) = BitAnd(self.prefix, mask)

\* the triple a node stores
BSTTriple(self) ==
    [prefix |-> self.prefix, prefix_len |-> self.prefix_len,
     next_hop |-> self.next_hop]

\* the test of lookup on one node, lines 47-50; its two operands have no
\* side effects, the comparison is written first
BSTTest(self, ip, acc) ==
    self.prefix_len > acc.best_len /\ BSTMatches(self, ip)

\* the in/out parameters when the test holds, lines 51-52; visited lists the
\* nodes the match test has been evaluated on, in the order of evaluation
BSTTake(self, acc) ==
    [best |-> Some(self.next_hop), best_len |-> self.prefix_len,
     visited |-> Append(acc.visited, BSTTriple(self))]

\* the in/out parameters when the test fails
BSTSkip(self, acc) ==
    [acc EXCEPT !.visited = Append(acc.visited, BSTTriple(self))]

\* faulty variant: the search descends like a keyed BST search, left when
\* the address is below the node's prefix and right otherwise
RECURSIVE BSTLookupPruned(_, _, _)
BSTLookupPruned(self, ip, acc) ==
    LET a1 == IF BSTTest(self, ip, acc)
              THEN BSTTake(self, acc) ELSE BSTSkip(self, acc)
    IN IF Less32(ip, self.prefix)
       THEN IF self.left # None
            THEN BSTLookupPruned(self.left[1], ip, a1) ELSE a1
       ELSE IF self.right # None
            THEN BSTLookupPruned(self.right[1], ip, a1) ELSE a1

\* faulty variant: the right subtree is searched before the left one
RECURSIVE BSTLookupRightFirst(_, _, _)
BSTLookupRightFirst(self, ip, acc) ==
    LET a1 == IF BSTTest(self, ip, acc)
              THEN BSTTake(self, acc) ELSE BSTSkip(self, acc)
        a2 == IF self.right # None
              THEN BSTLookupRightFirst(self.right[1], ip, a1) ELSE a1
    IN IF self.left # None
       THEN BSTLookupRightFirst(self.left[1], ip, a2) ELSE a2

RECURSIVE BSTLookup(_, _, _)
\* the search of the left subtree, lines 53-55
BSTLeft(self, ip, a1) ==
    IF self.left # None THEN BSTLookup(self.left[1], ip, a1) ELSE a1

\* acc is the pair of in/out parameters (best, best_len) and visited; the
\* right subtree is searched last, lines 56-58
BSTLookup(self, ip, acc) ==
    LET hit == BSTTest(self, ip, acc)
    IN CASE hit /\ self.right # None ->
                BSTLookup(self.right[1], ip,
                          BSTLeft(self, ip, BSTTake(self, acc)))
         [] hit /\ self.right = None ->
                BSTLeft(self, ip, BSTTake(self, acc))
         [] ~hit /\ self.right # None ->
                BSTLookup(self.right[1], ip,
                          BSTLeft(self, ip, BSTSkip(self, acc)))
         [] OTHER ->
                BSTLeft(self, ip, BSTSkip(self, acc))

\* faulty variant: the caller starts from best_len = 0
BSTResultZeroSentinel(root, ip) ==
    BSTLookup(root, ip, [best |-> None, best_len |-> 0, visited |-> <<>>]).best

\* the caller's side of a lookup: best = None, best_len = -1 (main.rs 87-89)
BSTCall(root, ip) ==
    BSTLookup(root, ip, [best |-> None, best_len |-> -1, visited |-> <<>>])

BSTResult(root, ip) == BSTCall(root, ip).best

----------------------------------------------------------------------------
\* tutorial-05 main.rs: MacAddress, Entry, HashTable

\* a u32 of this program is kept as its four bytes, the most significant
\* first, and a MacAddress as its six bytes

\* a ^ b on two bytes, bit by bit
XorU8(a, b) ==
    LET bit(i) == ((a \div 2^i) + (b \div 2^i)) % 2
    IN bit(0) + 2 * bit(1) + 4 * bit(2) + 8 * bit(3)
         + 16 * bit(4) + 32 * bit(5) + 64 * bit(6) + 128 * bit(7)

\* (x as usize) % m, from the most significant byte down
ModU32(x, m) ==
    ((((((x[1] % m) * 256 + x[2]) % m) * 256 + x[3]) % m) * 256 + x[4]) % m

\* upper is bytes 0-3 shifted to bits 31-0, lower is bytes 4-5 on bits 15-0
fold_to_32bit(mac) ==
    LET upper == <<mac[1], mac[2], mac[3], mac[4]>>
        lower == <<0, 0, mac[5], mac[6]>>
    IN <<XorU8(upper[1], lower[1]), XorU8(upper[2], lower[2]),
         XorU8(upper[3], lower[3]), XorU8(upper[4], lower[4])>>

EntryNew == [mac |-> <<0, 0, 0, 0, 0, 0>>, port |-> 0, occupied |-> FALSE]

\* the table is indexed from 0
HashTableNew(size) ==
    [table |-> [i \in 0..(size - 1) |-> EntryNew], size |-> size, count |-> 0]

hash1(self, folded) == ModU32(folded, self.size)

hash2(self, folded) == 1 + ModU32(folded, self.size - 1)

\* the while loop of insert, lines 123-131: it ends on an update of the
\* entry of mac, or leaves index and probes to the code after it
RECURSIVE InsertProbe(_, _, _, _, _, _)
InsertProbe(self, mac, h1, h2, index, probes) ==
    IF self.table[index].occupied /\ probes < self.size
    THEN IF self.table[index].mac = mac
         THEN [updated |-> TRUE, index |-> index, probes |-> probes]
         ELSE InsertProbe(self, mac, h1, h2,
                          (h1 + (probes + 1) * h2) % self.size, probes + 1)
    ELSE [updated |-> FALSE, index |-> index, probes |-> probes]

\* faulty variant: an update counts as a new entry
HtInsertCountsUpdate(self, mac, port) ==
    IF self.count >= self.size
    THEN [self |-> self, ret |-> "Err: hash table is full"]
    ELSE LET folded == fold_to_32bit(mac)
             h1 == hash1(self, folded)
             h2 == hash2(self, folded)
             at == InsertProbe(self, mac, h1, h2, h1, 0)
         IN IF at.updated
            THEN [self |-> [self EXCEPT !.table[at.index].port = port,
                                        !.count = self.count + 1],
                  ret |-> "Ok"]
            ELSE IF at.probes >= self.size
            THEN [self |-> self, ret |-> "Err: could not find empty slot"]
            ELSE [self |-> [self EXCEPT
                               !.table[at.index] =
                                   [mac |-> mac, port |-> port, occupied |-> TRUE],
                               !.count = self.count + 1],
                  ret |-> "Ok"]

\* insert: the table after the call and what the call returns
HtInsertCall(self, mac, port) ==
    IF self.count >= self.size
    THEN [self |-> self, ret |-> "Err: hash table is full"]
    ELSE LET folded == fold_to_32bit(mac)
             h1 == hash1(self, folded)
             h2 == hash2(self, folded)
             at == InsertProbe(self, mac, h1, h2, h1, 0)
         IN IF at.updated
            THEN [self |-> [self EXCEPT !.table[at.index].port = port],
                  ret |-> "Ok"]
            ELSE IF at.probes >= self.size
            THEN [self |-> self, ret |-> "Err: could not find empty slot"]
            ELSE [self |-> [self EXCEPT
                               !.table[at.index] =
                                   [mac |-> mac, port |-> port, occupied |-> TRUE],
                               !.count = self.count + 1],
                  ret |-> "Ok"]

\* the while loop of lookup and of delete, lines 154-165 and 179-192: the
\* index of the entry of mac, or none
RECURSIVE FindProbe(_, _, _, _, _, _)
FindProbe(self, mac, h1, h2, index, probes) ==
    IF probes < self.size
    THEN IF ~self.table[index].occupied
         THEN None
         ELSE IF self.table[index].mac = mac
         THEN Some(index)
         ELSE FindProbe(self, mac, h1, h2,
                        (h1 + (probes + 1) * h2) % self.size, probes + 1)
    ELSE None

Find(self, mac) ==
    LET folded == fold_to_32bit(mac)
        h1 == hash1(self, folded)
        h2 == hash2(self, folded)
    IN FindProbe(self, mac, h1, h2, h1, 0)

\* lookup: Option<u32>
HtLookupCall(self, mac) ==
    LET at == Find(self, mac)
    IN IF at = None THEN None ELSE Some(self.table[at[1]].port)

\* delete: the table after the call and what the call returns
HtDeleteCall(self, mac) ==
    LET at == Find(self, mac)
    IN IF at = None
       THEN [self |-> self, ret |-> FALSE]
       ELSE [self |-> [self EXCEPT !.table[at[1]].occupied = FALSE,
                                   !.count = self.count - 1],
             ret |-> TRUE]

----------------------------------------------------------------------------
\* tutorial-03 main.rs: Crc32, MacAddress, IpAddress, MulticastPacket,
\* HardwareHashTable, SoftwareFilter, MulticastFilterSimulator

\* a u32 is kept as its four bytes, the most significant first; an
\* IpAddress is its four bytes and a MacAddress its six bytes

\* 0xEDB88320
POLYNOMIAL == <<237, 184, 131, 32>>

\* x >> 1
Shr1(x) ==
    <<x[1] \div 2, (x[1] % 2) * 128 + x[2] \div 2,
      (x[2] % 2) * 128 + x[3] \div 2, (x[3] % 2) * 128 + x[4] \div 2>>

\* x ^ y
XorU32(x, y) ==
    <<XorU8(x[1], y[1]), XorU8(x[2], y[2]), XorU8(x[3], y[3]), XorU8(x[4], y[4])>>

\* one turn of the inner loop of Crc32::new
CrcRound(crc) ==
    IF crc[4] % 2 # 0 THEN XorU32(Shr1(crc), POLYNOMIAL) ELSE Shr1(crc)

RECURSIVE CrcRounds(_, _)
CrcRounds(crc, n) == IF n = 0 THEN crc ELSE CrcRounds(CrcRound(crc), n - 1)

Crc32New == [table |-> [i \in 0..255 |-> CrcRounds(<<0, 0, 0, i>>, 8)]]

\* the loop of compute from byte k of data on
RECURSIVE ComputeFrom(_, _, _, _)
ComputeFrom(self, data, k, crc) ==
    IF k > Len(data)
    THEN crc
    ELSE LET index == XorU8(crc[4], data[k])
         IN ComputeFrom(self, data, k + 1,
                        XorU32(<<0, crc[1], crc[2], crc[3]>>, self.table[index]))

compute(self, data) ==
    LET crc == ComputeFrom(self, data, 1, <<255, 255, 255, 255>>)
    IN <<255 - crc[1], 255 - crc[2], 255 - crc[3], 255 - crc[4]>>

\* (x >> shift) as usize, for a shift in 1..31: the result is below 2^31
ShrU32(x, shift) ==
    LET part(k) ==
            LET w == 8 * (4 - k)
            IN IF w >= shift THEN x[k] * 2^(w - shift)
               ELSE IF shift - w >= 8 THEN 0
               ELSE x[k] \div 2^(shift - w)
    IN part(1) + part(2) + part(3) + part(4)

\* & ((1 << bits) - 1) keeps the value modulo 2^bits
hash_to_index(self, mac, bits) ==
    LET crc == compute(self, mac)
        shift == 32 - bits
    IN ShrU32(crc, shift) % (2^bits)

\* b[1] & 0x7F drops bit 7 of the second byte of the address
from_multicast_ip(ip) == <<1, 0, 94, ip[2] % 128, ip[3], ip[4]>>

is_multicast(self) == self[1] >= 224 /\ self[1] <= 239

MulticastPacketNew(dst_ip) ==
    [dst_ip |-> dst_ip, dst_mac |-> from_multicast_ip(dst_ip)]

\* bits is indexed from 0.  The crc field is Crc32::new(), the same table
\* in every HardwareHashTable: it is the definition Crc32New, not a field
HardwareHashTableNew(size_bits) ==
    [bits |-> [i \in 0..(2^size_bits - 1) |-> FALSE], size_bits |-> size_bits]

\* add_mac with the index taken from the low end of the checksum
add_mac_low(self, mac) ==
    LET crc == compute(Crc32New, mac)
    IN [self EXCEPT !.bits[crc[4] % (2^self.size_bits)] = TRUE]

add_mac(self, mac) ==
    LET idx == hash_to_index(Crc32New, mac, self.size_bits)
    IN [self EXCEPT !.bits[idx] = TRUE]

check_mac(self, mac) ==
    LET idx == hash_to_index(Crc32New, mac, self.size_bits)
    IN self.bits[idx]

SoftwareFilterNew == [subscribed |-> {}]

SoftwareFilterSubscribe(self, ip) ==
    [self EXCEPT !.subscribed = self.subscribed \cup {ip}]

is_subscribed(self, ip) == ip \in self.subscribed

SimulationStatsDefault ==
    [total |-> 0, hw_dropped |-> 0, hw_passed |-> 0, sw_accepted |-> 0,
     sw_dropped |-> 0]

\* mac_to_ips is a function on the MACs that have an entry
MulticastFilterSimulatorNew(bits) ==
    [hw |-> HardwareHashTableNew(bits), sw |-> SoftwareFilterNew,
     stats |-> SimulationStatsDefault, mac_to_ips |-> <<>>]

\* entry(mac).or_insert_with(Vec::new).push(ip)
PushIp(map, mac, ip) ==
    [m \in DOMAIN map \cup {mac} |->
        IF m = mac
        THEN IF mac \in DOMAIN map THEN Append(map[mac], ip) ELSE <<ip>>
        ELSE map[m]]

\* subscribe after its assert passed
subscribe(self, ip) ==
    LET mac == from_multicast_ip(ip)
    IN [self EXCEPT !.sw = SoftwareFilterSubscribe(self.sw, ip),
                    !.hw = add_mac(self.hw, mac),
                    !.mac_to_ips = PushIp(self.mac_to_ips, mac, ip)]

\* process with total counted only for a packet that passes the table
process_passed_only(self, pkt) ==
    IF ~check_mac(self.hw, pkt.dst_mac)
    THEN [self EXCEPT !.stats.hw_dropped = self.stats.hw_dropped + 1]
    ELSE IF is_subscribed(self.sw, pkt.dst_ip)
    THEN [self EXCEPT !.stats.total = self.stats.total + 1,
                      !.stats.hw_passed = self.stats.hw_passed + 1,
                      !.stats.sw_accepted = self.stats.sw_accepted + 1]
    ELSE [self EXCEPT !.stats.total = self.stats.total + 1,
                      !.stats.hw_passed = self.stats.hw_passed + 1,
                      !.stats.sw_dropped = self.stats.sw_dropped + 1]

process(self, pkt) ==
    LET counted == [self EXCEPT !.stats.total = self.stats.total + 1]
    IN IF ~check_mac(self.hw, pkt.dst_mac)
       THEN [counted EXCEPT !.stats.hw_dropped = self.stats.hw_dropped + 1]
       ELSE IF is_subscribed(self.sw, pkt.dst_ip)
       THEN [counted EXCEPT !.stats.hw_passed = self.stats.hw_passed + 1,
                            !.stats.sw_accepted = self.stats.sw_accepted + 1]
       ELSE [counted EXCEPT !.stats.hw_passed = self.stats.hw_passed + 1,
                            !.stats.sw_dropped = self.stats.sw_dropped + 1]

----------------------------------------------------------------------------
\* inputs

\* prefixes and addresses: bit 31 and bit 0 vary, the bits between are 0
MkAddr(hi, lo) ==
    [k \in 1..Bits |-> IF k = 1 THEN hi ELSE IF k = Bits THEN lo ELSE 0]

Addrs == {MkAddr(hi, lo) : hi \in {0, 1}, lo \in {0, 1}}

\* lengths that keep no bit, bit 31 only, all but bit 0, and every bit
Lens == {0, 1, Bits - 1, Bits}

BadLens == {Bits + 1}

\* next hops are opaque labels to both structures (stored, cloned and
\* returned, never inspected): the n-th insert carries a label of its own,
\* as every route of the harness table does
HopLabel(n) == "Router_" \o ToString(n)

Route(prefix, prefix_len, next_hop) ==
    [prefix |-> prefix, prefix_len |-> prefix_len, next_hop |-> next_hop]


\* table sizes of a run: HashTable::new(size) for size in 2..MaxSize
MaxSize == 4

\* keys: folded to 4, to 0 and to 0x80000002
Macs ==
    {<<0, 0, 0, 5, 0, 1>>, <<0, 0, 1, 1, 1, 1>>, <<128, 0, 0, 0, 0, 2>>}

Ports == {1, 2}

\* no table: the state of the hash table variables in a run of tutorial-01
NoTable == [table |-> <<>>, size |-> 0, count |-> 0]

NoCalls ==
    /\ expect = [m \in Macs |-> None]
    /\ gone = [m \in Macs |-> FALSE]
    /\ last = [op |-> "new", mac |-> EntryNew.mac, port |-> 0, ret |-> "Ok"]

\* MulticastFilterSimulator::new(bits): 4 as in main, and 2
SizeBits == {2, 4}

\* subscribe calls and process calls of a run
MaxSubs == 3
MaxPackets == 3

\* 224.0.0.1 and 224.128.0.1 map to one MAC; the MAC of 224.0.0.5 is
\* another one with the same index in a table of 4 bits; the MAC of
\* 239.192.2.2 has an index of its own; 10.0.0.1 is not a multicast address
Ips ==
    {<<224, 0, 0, 1>>, <<224, 128, 0, 1>>, <<224, 0, 0, 5>>, <<239, 192, 2, 2>>,
     <<10, 0, 0, 1>>}

\* no simulator: the state of the simulator variables in a run of
\* tutorial-01 or tutorial-05
NoSim ==
    [hw |-> [bits |-> <<>>, size_bits |-> 0], sw |-> SoftwareFilterNew,
     stats |-> SimulationStatsDefault, mac_to_ips |-> <<>>]

NoPackets ==
    /\ joined = {}
    /\ call = [op |-> "new", ip |-> <<0, 0, 0, 0>>]

----------------------------------------------------------------------------
\* state machine: routes go into both structures in the same order

Init ==
    /\ trie = TrieNew
    /\ bst = None
    /\ log = <<>>
    /\ panicked = FALSE
    /\ results = <<>>
    /\ ht = NoTable
    /\ NoCalls
    /\ sim = NoSim
    /\ NoPackets

\* the first route: BSTNode::new makes the root, the trie gets an insert
AddFirst(prefix, prefix_len, next_hop) ==
    /\ ~panicked
    /\ bst = None
    /\ bst' = Some(BSTNew(prefix, prefix_len, next_hop))
    /\ trie' = TrieInsert(trie, prefix, prefix_len, next_hop)
    /\ log' = Append(log, Route(prefix, prefix_len, next_hop))
    /\ UNCHANGED <<panicked, results, htVars, mcVars>>

\* every later route: insert into the BST, then into the trie
AddNext(prefix, prefix_len, next_hop) ==
    /\ ~panicked
    /\ bst # None
    /\ bst' = Some(BSTInsert(bst[1], prefix, prefix_len, next_hop))
    /\ trie' = TrieInsert(trie, prefix, prefix_len, next_hop)
    /\ log' = Append(log, Route(prefix, prefix_len, next_hop))
    /\ UNCHANGED <<panicked, results, htVars, mcVars>>

NewRoot ==
    /\ Len(log) < MaxRoutes
    /\ \E prefix \in Addrs, prefix_len \in Lens :
          AddFirst(prefix, prefix_len, HopLabel(Len(log) + 1))

InsertBoth ==
    /\ Len(log) < MaxRoutes
    /\ \E prefix \in Addrs, prefix_len \in Lens :
          AddNext(prefix, prefix_len, HopLabel(Len(log) + 1))

Next == NewRoot \/ InsertBoth

Spec == Init /\ [][Next]_vars

\* an insert whose prefix_len is above 32.  BSTNode::insert stores the node
\* as given.  In TrieNode::insert the u8 subtraction 32 - prefix_len
\* overflows: a build with overflow checks panics there, before any write;
\* a build without them wraps, the loop range is empty and the root gets
\* the next_hop.
InsertOutOfRange ==
    /\ Len(log) < MaxRoutes
    /\ ~panicked
    /\ bst # None
    /\ \E prefix \in Addrs, prefix_len \in BadLens, checked \in BOOLEAN :
        LET next_hop == HopLabel(Len(log) + 1)
        IN
          /\ bst' = Some(BSTInsert(bst[1], prefix, prefix_len, next_hop))
          /\ IF checked
             THEN trie' = trie /\ panicked' = TRUE
             ELSE /\ trie' = TrieInsert(trie, prefix, prefix_len, next_hop)
                  /\ panicked' = FALSE
          /\ log' = Append(log, Route(prefix, prefix_len, next_hop))
          /\ UNCHANGED <<results, htVars, mcVars>>

NextAny == NewRoot \/ InsertBoth \/ InsertOutOfRange

SpecAny == Init /\ [][NextAny]_vars

----------------------------------------------------------------------------
\* main.rs: the route table of the harness and its five lookups

\* s.parse() of a decimal below 2^31 into a u32
ParseU32(n) ==
    [k \in 1..Bits |-> IF k = 1 THEN 0 ELSE (n \div 2^(Bits - k)) % 2]

ip_to_u32(parts) ==
    BitOr(BitOr(BitOr(Shl(ParseU32(parts[1]), 24), Shl(ParseU32(parts[2]), 16)),
                Shl(ParseU32(parts[3]), 8)),
          ParseU32(parts[4]))

BaseRoutes ==
    << <<(<<192, 168, 0, 0>>), 16, "Router_A">>,
       <<(<<192, 168, 1, 0>>), 24, "Router_B">>,
       <<(<<192, 168, 1, 128>>), 25, "Router_C">>,
       <<(<<10, 0, 0, 0>>), 8, "Router_D">>,
       <<(<<172, 16, 0, 0>>), 12, "Router_E">> >>

\* rounds of the generating loop, three routes a round
GenRounds == 100

\* the k-th generated route, k in 1..3*GenRounds
GeneratedRoute(k) ==
    LET i == (k - 1) \div 3
        j == (k - 1) % 3
    IN IF j = 0 THEN <<(<<10, i, 0, 0>>), 16, "Router_" \o ToString(i + 100)>>
       ELSE IF j = 1
       THEN <<(<<172, (i % 240) + 16, 0, 0>>), 20, "Router_" \o ToString(i + 200)>>
       ELSE <<(<<192, 168, i % 256, 0>>), 24, "Router_" \o ToString(i + 300)>>

TestIps ==
    << <<192, 168, 1, 5>>, <<192, 168, 1, 200>>, <<10, 5, 10, 1>>,
       <<172, 16, 5, 5>>, <<8, 8, 8, 8>> >>

NumRoutes == Len(BaseRoutes) + 3 * GenRounds

HarnessFirst ==
    /\ Len(log) = 0
    /\ AddFirst(ip_to_u32(BaseRoutes[1][1]), BaseRoutes[1][2], BaseRoutes[1][3])

HarnessBase ==
    /\ Len(log) >= 1
    /\ Len(log) < Len(BaseRoutes)
    /\ LET r == BaseRoutes[Len(log) + 1]
       IN AddNext(ip_to_u32(r[1]), r[2], r[3])

HarnessGenerated ==
    /\ Len(log) >= Len(BaseRoutes)
    /\ Len(log) < NumRoutes
    /\ LET r == GeneratedRoute(Len(log) - Len(BaseRoutes) + 1)
       IN AddNext(ip_to_u32(r[1]), r[2], r[3])

HarnessLookup ==
    /\ Len(log) = NumRoutes
    /\ Len(results) < Len(TestIps)
    /\ LET ip == ip_to_u32(TestIps[Len(results) + 1])
       IN results' = Append(results,
                            [ip |-> TestIps[Len(results) + 1],
                             bst_result |-> BSTResult(bst[1], ip),
                             trie_result |-> TrieLookup(trie, ip)])
    /\ UNCHANGED <<trie, bst, log, panicked, htVars, mcVars>>

HarnessNext == HarnessFirst \/ HarnessBase \/ HarnessGenerated \/ HarnessLookup

HarnessSpec == Init /\ [][HarnessNext]_vars

----------------------------------------------------------------------------
\* tutorial-05: calls on one table, in any order

HtInit ==
    /\ trie = TrieNew
    /\ bst = None
    /\ log = <<>>
    /\ panicked = FALSE
    /\ results = <<>>
    /\ \E size \in 2..MaxSize : ht = HashTableNew(size)
    /\ NoCalls
    /\ sim = NoSim
    /\ NoPackets

HtInsert ==
    \E mac \in Macs, port \in Ports :
        LET r == HtInsertCall(ht, mac, port)
        IN /\ ht' = r.self
           /\ expect' = IF r.ret = "Ok"
                        THEN [expect EXCEPT ![mac] = Some(port)] ELSE expect
           /\ gone' = IF r.ret = "Ok" THEN [gone EXCEPT ![mac] = FALSE] ELSE gone
           /\ last' = [op |-> "insert", mac |-> mac, port |-> port, ret |-> r.ret]
           /\ UNCHANGED <<lpmVars, mcVars>>

HtLookup ==
    \E mac \in Macs :
        LET r == HtLookupCall(ht, mac)
        IN /\ last' = [op |-> "lookup", mac |-> mac,
                       port |-> IF r = None THEN 0 ELSE r[1],
                       ret |-> IF r = None THEN "None" ELSE "Some"]
           /\ UNCHANGED <<ht, expect, gone, lpmVars, mcVars>>

HtDelete ==
    \E mac \in Macs :
        LET r == HtDeleteCall(ht, mac)
        IN /\ ht' = r.self
           /\ expect' = [expect EXCEPT ![mac] = None]
           /\ gone' = IF r.ret THEN [gone EXCEPT ![mac] = TRUE] ELSE gone
           /\ last' = [op |-> "delete", mac |-> mac, port |-> 0,
                       ret |-> IF r.ret THEN "true" ELSE "false"]
           /\ UNCHANGED <<lpmVars, mcVars>>

HtNext == HtInsert \/ HtLookup \/ HtDelete

HtSpec == HtInit /\ [][HtNext]_vars

----------------------------------------------------------------------------
\* tutorial-03: subscribe and process calls on one simulator, in any order

McInit ==
    /\ trie = TrieNew
    /\ bst = None
    /\ log = <<>>
    /\ panicked = FALSE
    /\ results = <<>>
    /\ ht = NoTable
    /\ NoCalls
    /\ \E bits \in SizeBits : sim = MulticastFilterSimulatorNew(bits)
    /\ NoPackets

\* the number of subscribe calls so far: every call pushed one address
RECURSIVE Pushed(_, _)
Pushed(map, macs) ==
    IF macs = {} THEN 0
    ELSE LET m == CHOOSE x \in macs : TRUE
         IN Len(map[m]) + Pushed(map, macs \ {m})

McSubscribe ==
    /\ call.op # "panic"
    /\ Pushed(sim.mac_to_ips, DOMAIN sim.mac_to_ips) < MaxSubs
    /\ \E ip \in Ips :
        /\ is_multicast(ip)
        /\ sim' = subscribe(sim, ip)
        /\ joined' = joined \cup {ip}
        /\ call' = [op |-> "subscribe", ip |-> ip]
    /\ UNCHANGED <<lpmVars, htVars>>

\* assert!(ip.is_multicast()) fails before anything is changed; the run
\* ends there
McSubscribePanics ==
    /\ call.op # "panic"
    /\ \E ip \in Ips :
        /\ ~is_multicast(ip)
        /\ call' = [op |-> "panic", ip |-> ip]
    /\ UNCHANGED <<sim, joined, lpmVars, htVars>>

McProcess ==
    /\ call.op # "panic"
    /\ sim.stats.total < MaxPackets
    /\ \E ip \in Ips :
        /\ sim' = process(sim, MulticastPacketNew(ip))
        /\ call' = [op |-> "process", ip |-> ip]
    /\ UNCHANGED <<joined, lpmVars, htVars>>

McNext == McSubscribe \/ McSubscribePanics \/ McProcess

McSpec == McInit /\ [][McNext]_vars

----------------------------------------------------------------------------
\* reference notions the properties are stated with

\* the top len bits of a and b are equal
TopBitsEqual(a, b, len) == \A k \in 1..len : a[k] = b[k]

Covers(r, ip) == TopBitsEqual(r.prefix, ip, r.prefix_len)

\* the same route: equal length and equal significant bits
SameRoute(r, s) ==
    r.prefix_len = s.prefix_len /\ TopBitsEqual(r.prefix, s.prefix, r.prefix_len)

MatchIdx(rs, ip) == {i \in 1..Len(rs) : Covers(rs[i], ip)}

LongestIdx(rs, ip) ==
    {i \in MatchIdx(rs, ip) :
        \A j \in MatchIdx(rs, ip) : rs[j].prefix_len <= rs[i].prefix_len}

MaxOf(S) == CHOOSE m \in S : \A x \in S : x <= m

RECURSIVE TrieSize(_)
TrieSize(node) ==
    1 + (IF node.left = None THEN 0 ELSE TrieSize(node.left[1]))
      + (IF node.right = None THEN 0 ELSE TrieSize(node.right[1]))

RECURSIVE TrieHops(_)
TrieHops(node) ==
    (IF node.next_hop = None THEN 0 ELSE 1)
      + (IF node.left = None THEN 0 ELSE TrieHops(node.left[1]))
      + (IF node.right = None THEN 0 ELSE TrieHops(node.right[1]))

RECURSIVE BSTSize(_)
BSTSize(node) ==
    1 + (IF node.left = None THEN 0 ELSE BSTSize(node.left[1]))
      + (IF node.right = None THEN 0 ELSE BSTSize(node.right[1]))

\* the step is an insert call
Inserted == Len(log') = Len(log) + 1

LastRoute == log'[Len(log')]

----------------------------------------------------------------------------
\* C1: after any sequence of trie inserts with lengths in 0..32, lookup of
\* any address gives the next hop of the matching route of greatest length
\* (the latest insert of that route), and none when no route matches
TrieLongestMatch ==
    \A ip \in Addrs :
        IF MatchIdx(log, ip) = {}
        THEN TrieLookup(trie, ip) = None
        ELSE TrieLookup(trie, ip)
                 = Some(log[MaxOf(LongestIdx(log, ip))].next_hop)

\* a /1 route and a /32 route both cover the address; the /32 one wins
TrieLongestMatchWitness ==
    \E ip \in Addrs :
        /\ \E i, j \in MatchIdx(log, ip) :
              /\ log[i].prefix_len < log[j].prefix_len
              /\ log[j].prefix_len = Bits
              /\ log[i].next_hop # log[j].next_hop
              /\ TrieLookup(trie, ip) = Some(log[j].next_hop)
        /\ \E ip2 \in Addrs : MatchIdx(log, ip2) = {} /\ TrieLookup(trie, ip2) = None

\* C2: a BST made by new and inserts, looked up from best = none and
\* best_len = -1, leaves the next hop of a matching route of greatest
\* length, and none when no route matches
BSTLongestMatch ==
    bst # None =>
        \A ip \in Addrs :
            IF MatchIdx(log, ip) = {}
            THEN BSTResult(bst[1], ip) = None
            ELSE \E i \in LongestIdx(log, ip) :
                     BSTResult(bst[1], ip) = Some(log[i].next_hop)

BSTLongestMatchWitness ==
    /\ bst # None
    /\ \E ip \in Addrs :
        /\ \E i, j \in MatchIdx(log, ip) :
              /\ log[i].prefix_len < log[j].prefix_len
              /\ log[i].next_hop # log[j].next_hop
              /\ j < i
              /\ BSTResult(bst[1], ip) = Some(log[j].next_hop)
        /\ \E ip2 \in Addrs :
              MatchIdx(log, ip2) = {} /\ BSTResult(bst[1], ip2) = None

\* C3: when no two routes have the same raw prefix value, the trie result
\* and the BST result are equal for every address
StructuresAgree ==
    (/\ bst # None
     /\ \A i, j \in 1..Len(log) : i # j => log[i].prefix # log[j].prefix)
    => \A ip \in Addrs : TrieLookup(trie, ip) = BSTResult(bst[1], ip)

\* C5: a second trie insert of a route adds no node and no second mapping,
\* and every lookup whose longest match is that route gives the next hop of
\* the most recent insert
TrieReinsertStep ==
    (Inserted /\ \E i \in 1..Len(log) : SameRoute(log[i], LastRoute))
    => /\ TrieSize(trie') = TrieSize(trie)
       /\ TrieHops(trie') = TrieHops(trie)
       /\ \A ip \in Addrs :
             Len(log') \in LongestIdx(log', ip)
             => TrieLookup(trie', ip) = Some(LastRoute.next_hop)

TrieReinsertLater ==
    \A i, j \in 1..Len(log) :
        (/\ i < j
         /\ SameRoute(log[i], log[j])
         /\ \A k \in 1..Len(log) : k > j => ~SameRoute(log[k], log[j]))
        => \A ip \in Addrs :
               j \in LongestIdx(log, ip)
               => TrieLookup(trie, ip) = Some(log[j].next_hop)

TrieReinsertOverwrites == [][TrieReinsertStep]_vars /\ []TrieReinsertLater

TrieReinsertWitness ==
    \E i, j \in 1..Len(log), ip \in Addrs :
        /\ i < j
        /\ log[i].prefix = log[j].prefix
        /\ log[i].prefix_len = log[j].prefix_len
        /\ log[i].prefix_len > 0
        /\ log[i].next_hop # log[j].next_hop
        /\ j \in LongestIdx(log, ip)
        /\ TrieLookup(trie, ip) = Some(log[j].next_hop)

\* C6: a second BST insert of the same (prefix, prefix_len) replaces the
\* next hop: a lookup whose longest match is that route leaves in best the
\* next hop of the most recent insert
BSTReinsertReplaces ==
    bst # None =>
        \A i, j \in 1..Len(log) :
            (/\ i < j
             /\ log[i].prefix = log[j].prefix
             /\ log[i].prefix_len = log[j].prefix_len
             /\ log[i].next_hop # log[j].next_hop
             /\ \A k \in 1..Len(log) : k > j => ~SameRoute(log[k], log[j]))
            => \A ip \in Addrs :
                   j \in LongestIdx(log, ip)
                   => BSTResult(bst[1], ip) = Some(log[j].next_hop)

\* the structures a route sequence builds
RECURSIVE BuildTrie(_, _)
BuildTrie(rs, n) ==
    IF n = 0 THEN TrieNew
    ELSE TrieInsert(BuildTrie(rs, n - 1),
                    rs[n].prefix, rs[n].prefix_len, rs[n].next_hop)

RECURSIVE BuildBST(_, _)
BuildBST(rs, n) ==
    IF n = 1 THEN BSTNew(rs[1].prefix, rs[1].prefix_len, rs[1].next_hop)
    ELSE BSTInsert(BuildBST(rs, n - 1),
                   rs[n].prefix, rs[n].prefix_len, rs[n].next_hop)

\* C7: in both structures, giving a route another prefix argument with the
\* same top prefix_len bits changes no lookup result
PrefixLowBitsIgnored ==
    bst # None =>
        \A i \in 1..Len(log), q \in Addrs :
            TopBitsEqual(q, log[i].prefix, log[i].prefix_len)
            => LET alt == [log EXCEPT ![i].prefix = q]
               IN \A ip \in Addrs :
                      /\ TrieLookup(BuildTrie(alt, Len(alt)), ip)
                             = TrieLookup(trie, ip)
                      /\ BSTResult(BuildBST(alt, Len(alt)), ip)
                             = BSTResult(bst[1], ip)

\* C9: with a single route of length 0 and next hop H, every address that
\* no route of length 1 or more covers resolves to H in both structures;
\* the trie keeps that route on the root and makes no child for it
DefaultRouteStep ==
    (Inserted /\ LastRoute.prefix_len = 0)
    => /\ trie'.left = trie.left
       /\ trie'.right = trie.right
       /\ trie'.next_hop = Some(LastRoute.next_hop)

DefaultRouteResolves ==
    \A i \in 1..Len(log) :
        (/\ log[i].prefix_len = 0
         /\ \A j \in 1..Len(log) : j # i => log[j].prefix_len # 0)
        => /\ trie.next_hop = Some(log[i].next_hop)
           /\ \A ip \in Addrs :
                 (\A j \in MatchIdx(log, ip) : log[j].prefix_len = 0)
                 => /\ TrieLookup(trie, ip) = Some(log[i].next_hop)
                    /\ BSTResult(bst[1], ip) = Some(log[i].next_hop)

DefaultRoute == [][DefaultRouteStep]_vars /\ []DefaultRouteResolves

\* a default route passed with non-zero prefix bits, inserted after a more
\* specific route
DefaultRouteWitness ==
    \E i, j \in 1..Len(log), ip, ip2 \in Addrs :
        /\ j < i
        /\ log[i].prefix_len = 0
        /\ log[i].prefix # Zero32
        /\ \A k \in 1..Len(log) : k # i => log[k].prefix_len # 0
        /\ log[j].next_hop # log[i].next_hop
        /\ MatchIdx(log, ip) = {i}
        /\ TrieLookup(trie, ip) = Some(log[i].next_hop)
        /\ BSTResult(bst[1], ip) = Some(log[i].next_hop)
        /\ j \in MatchIdx(log, ip2)
        /\ TrieLookup(trie, ip2) = Some(log[j].next_hop)

\* C10: a trie lookup follows at most 32 child links, the k-th of them
\* chosen by the k-th address bit counted from bit 31
TrieDepthBound ==
    \A ip \in Addrs :
        LET links == TrieWalk(trie, ip).links
        IN /\ Len(links) <= Bits
           /\ \A k \in 1..Len(links) : links[k] = ip[k]

\* a walk that uses all 32 bits, and one a missing child stops early
TrieDepthBoundWitness ==
    /\ \E ip \in Addrs :
          /\ Len(TrieWalk(trie, ip).links) = Bits
          /\ ip[1] = 1
    /\ \E ip \in Addrs :
          /\ Len(TrieWalk(trie, ip).links) > 0
          /\ Len(TrieWalk(trie, ip).links) < Bits

\* C4: on the route table of the harness the BST result and the trie
\* result are equal for each of the five query addresses
HarnessResultsAgree ==
    \A k \in 1..Len(results) : results[k].bst_result = results[k].trie_result

\* C8: an insert with prefix_len outside 0..32 is rejected: it adds no
\* node and overwrites no next_hop, in the trie and in the BST alike
OutOfRangeStep ==
    (Inserted /\ LastRoute.prefix_len \notin 0..Bits)
    => trie' = trie /\ bst' = bst

OutOfRangeRejected == [][OutOfRangeStep]_vars

\* the orders a route set of n routes can be inserted in
Perms(n) ==
    {p \in [1..n -> 1..n] : \A i, j \in 1..n : i # j => p[i] # p[j]}

Reorder(rs, p) == [k \in 1..Len(rs) |-> rs[p[k]]]

\* a route set is a list without repetition of (prefix, prefix_length): it
\* is taken once, listed by length and then by raw prefix, and log is that
\* listing
RouteBefore(r, s) ==
    \/ r.prefix_len < s.prefix_len
    \/ r.prefix_len = s.prefix_len /\ Less32(r.prefix, s.prefix)

RouteSet ==
    /\ bst # None
    /\ \A i, j \in 1..Len(log) : i < j => RouteBefore(log[i], log[j])

\* every insertion order of the routes of log gives the lookup results of
\* the tree built in the order of log
SameResultsInEveryOrder ==
    \A p \in Perms(Len(log)), ip \in Addrs :
        BSTResult(BuildBST(Reorder(log, p), Len(log)), ip)
            = BSTResult(bst[1], ip)

\* C11 as stated: for a route set in which no two routes have the same
\* (prefix, prefix_length), every insertion order gives the same lookup
\* result for every address
BSTOrderIndependentRaw == RouteSet => SameResultsInEveryOrder

\* C11: for a route set in which no two routes have the same prefix_length
\* and the same top prefix_length bits, every insertion order (every choice
\* of root included) gives the same lookup result for every address
BSTOrderIndependent ==
    (/\ RouteSet
     /\ \A i, j \in 1..Len(log) : i # j => ~SameRoute(log[i], log[j]))
    => SameResultsInEveryOrder

\* three different routes, two of which cover one address with different
\* lengths, and an order with another root and another tree
BSTOrderIndependentWitness ==
    /\ RouteSet
    /\ Len(log) = 3
    /\ \A i, j \in 1..Len(log) : i # j => ~SameRoute(log[i], log[j])
    /\ \E ip \in Addrs, i, j \in 1..Len(log) :
          /\ i \in MatchIdx(log, ip)
          /\ j \in LongestIdx(log, ip)
          /\ log[i].prefix_len < log[j].prefix_len
          /\ BSTResult(bst[1], ip) = Some(log[j].next_hop)
    /\ \E p \in Perms(Len(log)) :
          LET other == BuildBST(Reorder(log, p), Len(log))
          IN /\ other.prefix # bst[1].prefix
             /\ other.left # None
             /\ bst[1].left = None
             /\ \A ip \in Addrs : BSTResult(other, ip) = BSTResult(bst[1], ip)

\* the nodes of a trie, each with the bit path that leads to it from the
\* root (bit 31 first)
RECURSIVE TrieNodes(_, _)
TrieNodes(node, path) ==
    {[path |-> path, next_hop |-> node.next_hop]}
      \cup (IF node.left = None THEN {}
            ELSE TrieNodes(node.left[1], Append(path, 0)))
      \cup (IF node.right = None THEN {}
            ELSE TrieNodes(node.right[1], Append(path, 1)))

\* the inserts of the route whose length is the length of path and whose
\* top bits are path
RoutesAt(path) ==
    {i \in 1..Len(log) :
        /\ log[i].prefix_len = Len(path)
        /\ \A k \in 1..Len(path) : log[i].prefix[k] = path[k]}

\* C12: a trie node at depth L reached by bit path b carries a next_hop
\* exactly when some inserted route has length L and top L bits b, and the
\* next_hop it carries is that of the most recent such insert
TrieNodeMeaning ==
    LET nodes == TrieNodes(trie, <<>>)
    IN /\ \A n \in nodes :
             LET at == RoutesAt(n.path)
             IN IF at = {}
                THEN n.next_hop = None
                ELSE n.next_hop = Some(log[MaxOf(at)].next_hop)
       /\ \A i \in 1..Len(log) : \E n \in nodes : i \in RoutesAt(n.path)

\* a node at depth 31 written twice (the second time with another bit 0 in
\* the prefix argument) below nodes that carry nothing, and a root that
\* carries the route of length 0
TrieNodeMeaningWitness ==
    /\ \E n \in TrieNodes(trie, <<>>) :
          /\ Len(n.path) = Bits - 1
          /\ \E i, j \in RoutesAt(n.path) :
                /\ i < j
                /\ log[i].prefix # log[j].prefix
                /\ n.next_hop = Some(log[j].next_hop)
    /\ \E n \in TrieNodes(trie, <<>>) :
          Len(n.path) = 2 /\ n.next_hop = None
    /\ \E n \in TrieNodes(trie, <<>>) :
          Len(n.path) = 0 /\ n.next_hop # None

\* the nodes of a BST, each with its position: the path of child links from
\* the root, 0 for left and 1 for right
RECURSIVE BSTNodes(_, _)
BSTNodes(node, path) ==
    {[path |-> path, prefix |-> node.prefix, prefix_len |-> node.prefix_len,
      next_hop |-> node.next_hop]}
      \cup (IF node.left = None THEN {}
            ELSE BSTNodes(node.left[1], Append(path, 0)))
      \cup (IF node.right = None THEN {}
            ELSE BSTNodes(node.right[1], Append(path, 1)))

\* path a leads to the position b or to a position above it
PathPrefix(a, b) == Len(a) <= Len(b) /\ \A k \in 1..Len(a) : a[k] = b[k]

\* the nodes of the tree of this state
Stored == IF bst = None THEN {} ELSE BSTNodes(bst[1], <<>>)

\* C13: for every node, every node of its left subtree has a raw prefix
\* strictly below its prefix and every node of its right subtree a raw
\* prefix equal to or above it, whatever the prefix lengths
BSTOrdered ==
    \A n, m \in Stored :
        /\ PathPrefix(Append(n.path, 0), m.path) => Less32(m.prefix, n.prefix)
        /\ PathPrefix(Append(n.path, 1), m.path) => ~Less32(m.prefix, n.prefix)

\* an equal prefix of another length sits in the right subtree, a smaller
\* prefix of greater length in the left one, and a node lies two links
\* below the root
BSTOrderedWitness ==
    /\ \E n, m \in Stored :
          /\ PathPrefix(Append(n.path, 1), m.path)
          /\ m.prefix = n.prefix
          /\ m.prefix_len # n.prefix_len
    /\ \E n, m \in Stored :
          /\ PathPrefix(Append(n.path, 0), m.path)
          /\ m.prefix_len > n.prefix_len
    /\ \E m \in Stored : Len(m.path) = 2

\* the nodes of the tree after the step
StoredAfter == BSTNodes(bst'[1], <<>>)

Triple(n) ==
    [prefix |-> n.prefix, prefix_len |-> n.prefix_len, next_hop |-> n.next_hop]

\* n is the first node with its prefix on the way down from the root
FirstWithPrefix(n) ==
    \A m \in Stored :
        (m.prefix = n.prefix /\ PathPrefix(m.path, n.path)) => m = n

\* C14: an insert into a tree adds exactly one node, a leaf that holds the
\* given triple, and leaves the triple and the position of every existing
\* node as they were, also when the prefix equals a stored one; the new node
\* is then in the right subtree of the first node with that prefix
BSTInsertStep ==
    (Inserted /\ bst # None)
    => /\ Stored \subseteq StoredAfter
       /\ \E leaf \in StoredAfter :
             /\ StoredAfter \ Stored = {leaf}
             /\ Triple(leaf) = LastRoute
             /\ \A m \in StoredAfter : PathPrefix(leaf.path, m.path) => m = leaf
             /\ \A n \in Stored :
                   (n.prefix = LastRoute.prefix /\ FirstWithPrefix(n))
                   => PathPrefix(Append(n.path, 1), leaf.path)

BSTInsertAddsLeaf == [][BSTInsertStep]_vars

\* the last insert had the prefix of two stored nodes and another length:
\* its node is a leaf below both, on the right
BSTInsertAddsLeafWitness ==
    /\ Len(log) = 3
    /\ \E n, m, leaf \in Stored :
          /\ Triple(leaf) = log[3]
          /\ Triple(n) = log[1]
          /\ Triple(m) = log[2]
          /\ n.prefix = leaf.prefix /\ m.prefix = leaf.prefix
          /\ n.prefix_len # leaf.prefix_len
          /\ n.path = <<>> /\ m.path = <<1>> /\ leaf.path = <<1, 1>>

\* position a comes before position b in pre-order: a is above b, or at the
\* first link where they part a goes left
PathBefore(a, b) ==
    \/ a # b /\ PathPrefix(a, b)
    \/ \E k \in 1..Len(a) :
          /\ k <= Len(b)
          /\ a[k] = 0 /\ b[k] = 1
          /\ \A j \in 1..(k - 1) : a[j] = b[j]

\* C15: a lookup ends on every tree built by inserts, and it evaluates the
\* match test on every stored node exactly once, the node before its left
\* subtree and the left subtree before the right one, for every address
BSTVisitsAll ==
    bst # None =>
        LET nodes == Stored
        IN \A ip \in Addrs :
               LET visited == BSTCall(bst[1], ip).visited
               IN /\ Len(visited) = Cardinality(nodes)
                  /\ \A k \in 1..Len(visited) :
                        \E n \in nodes :
                           /\ Triple(n) = visited[k]
                           /\ Cardinality({m \in nodes :
                                              PathBefore(m.path, n.path)}) = k - 1

\* a root with both children: an address below the root's prefix that the
\* right child alone covers still has the test made on all three, in
\* pre-order
BSTVisitsAllWitness ==
    /\ bst # None
    /\ bst[1].left # None /\ bst[1].right # None
    /\ \E ip \in Addrs :
          /\ Less32(ip, bst[1].prefix)
          /\ ~BSTMatches(bst[1], ip)
          /\ ~BSTMatches(bst[1].left[1], ip)
          /\ BSTMatches(bst[1].right[1], ip)
          /\ BSTCall(bst[1], ip).visited
                = <<BSTTriple(bst[1]), BSTTriple(bst[1].left[1]),
                    BSTTriple(bst[1].right[1])>>
          /\ BSTResult(bst[1], ip) = Some(bst[1].right[1].next_hop)

\* C16: once delete(mac) has returned true, lookup(mac) returns None in
\* every later state until mac is inserted again, whatever is inserted or
\* deleted in between
DeletedStaysGone ==
    \A mac \in Macs : gone[mac] => HtLookupCall(ht, mac) = None

\* C17: a MAC whose insert returned Ok and which has not been deleted since
\* is found by lookup with the port of its latest successful insert, also
\* after deletes of other MACs
InsertedIsFound ==
    \A mac \in Macs :
        expect[mac] # None => HtLookupCall(ht, mac) = expect[mac]

RECURSIVE GCD(_, _)
GCD(a, b) == IF b = 0 THEN a ELSE GCD(b, a % b)

\* the slots (h1 + i*h2) mod size, i in 0..size, of the probe sequence of mac
ProbeSlots(self, mac) ==
    LET folded == fold_to_32bit(mac)
    IN {(hash1(self, folded) + i * hash2(self, folded)) % self.size :
           i \in 0..self.size}

\* the latest call was an insert that returned an error
InsertFailed == last.op = "insert" /\ last.ret # "Ok"

\* a failed insert leaves the table as it was, so count is the count the
\* call met
InsertErrorOnlyWhenFull == InsertFailed => ht.count = ht.size

\* C18: the step of hash2 is relatively prime to the table size for every
\* key, the probe sequence of every key visits every slot, and an insert
\* returns an error only when count = size
HashStepCoprime ==
    /\ \A mac \in Macs :
          /\ GCD(hash2(ht, fold_to_32bit(mac)), ht.size) = 1
          /\ ProbeSlots(ht, mac) = 0..(ht.size - 1)
    /\ InsertErrorOnlyWhenFull

\* the number of entries whose occupied flag is set
Occupied(self) == Cardinality({i \in 0..(self.size - 1) : self.table[i].occupied})

\* what a call does to count, by the value it returns: an insert that
\* returns Ok adds one when it stored a new entry and nothing when it updated
\* one, a delete takes one away when it returns true
CountStep ==
    /\ (last'.op = "insert" /\ last'.ret # "Ok") => ht'.count = ht.count
    /\ (last'.op = "insert" /\ last'.ret = "Ok" /\ Find(ht, last'.mac) # None)
          => ht'.count = ht.count
    /\ (last'.op = "insert" /\ last'.ret = "Ok" /\ Find(ht, last'.mac) = None)
          => ht'.count = ht.count + 1
    /\ (last'.op = "delete" /\ last'.ret = "false") => ht'.count = ht.count
    /\ (last'.op = "delete" /\ last'.ret = "true") => ht'.count = ht.count - 1
    /\ last'.op = "lookup" => ht'.count = ht.count

\* C19: count is the number of occupied entries and never exceeds size; an
\* insert that updates a MAC already present, a failed insert and a delete
\* that returns false leave count unchanged
CountIsOccupied ==
    /\ [](ht.count = Occupied(ht) /\ ht.count <= ht.size)
    /\ [][CountStep]_vars

\* a full table after an update, a failed insert and a delete that returned
\* false have been seen is not one state; the witness is the state after a
\* refused insert into a full table in which some MAC has been deleted and
\* some MAC is there with the port of its second insert
CountIsOccupiedWitness ==
    /\ ht.size = 3
    /\ ht.count = ht.size
    /\ Occupied(ht) = 3
    /\ InsertFailed
    /\ \E mac \in Macs : gone[mac]
    /\ \E mac \in Macs : expect[mac] = Some(2) /\ HtLookupCall(ht, mac) = Some(2)

\* what process does to the counters when the address of its packet was
\* given to subscribe before the call
SubscribedPasses ==
    (call'.op = "process" /\ call'.ip \in joined) =>
        /\ sim'.stats.hw_passed = sim.stats.hw_passed + 1
        /\ sim'.stats.sw_accepted = sim.stats.sw_accepted + 1
        /\ sim'.stats.hw_dropped = sim.stats.hw_dropped
        /\ sim'.stats.sw_dropped = sim.stats.sw_dropped

\* sw_dropped counts packets of addresses never subscribed only
OnlyUnsubscribedDropped ==
    sim'.stats.sw_dropped # sim.stats.sw_dropped => call'.ip \notin joined

\* C20: a packet whose destination address was subscribed before it is
\* processed is never dropped by the hardware filter: process adds one to
\* hw_passed and to sw_accepted and leaves hw_dropped and sw_dropped as they
\* were; only a packet of an unsubscribed address is counted in sw_dropped
NoFalseNegative == [][SubscribedPasses /\ OnlyUnsubscribedDropped]_vars

\* a subscribed packet was just accepted by a table of 4 bits, after one
\* packet was dropped by the table and one passed it and was dropped by the
\* exact set
NoFalseNegativeWitness ==
    /\ sim.hw.size_bits = 4
    /\ call.op = "process"
    /\ call.ip \in joined
    /\ sim.stats.sw_accepted = 1
    /\ sim.stats.hw_dropped = 1
    /\ sim.stats.sw_dropped = 1

\* the two sums of SimulationStats
CountersAddUp ==
    /\ sim.stats.total = sim.stats.hw_dropped + sim.stats.hw_passed
    /\ sim.stats.hw_passed = sim.stats.sw_accepted + sim.stats.sw_dropped

\* what a call does to the counters: process adds exactly one to total, a
\* subscribe call, passing its assert or not, changes none of the five
CountersStep ==
    /\ call'.op = "process" => sim'.stats.total = sim.stats.total + 1
    /\ call'.op \in {"subscribe", "panic"} => sim'.stats = sim.stats

\* C21: after any sequence of subscribe and process calls total is
\* hw_dropped + hw_passed and hw_passed is sw_accepted + sw_dropped; every
\* process call adds exactly one to total and subscribe changes no counter
CountersConsistent == [](CountersAddUp) /\ [][CountersStep]_vars

\* a subscribe call made after packets took each of the three ways through
\* process
CountersConsistentWitness ==
    /\ call.op = "subscribe"
    /\ sim.stats.total = 3
    /\ sim.stats.hw_dropped = 1
    /\ sim.stats.hw_passed = 2
    /\ sim.stats.sw_accepted = 1
    /\ sim.stats.sw_dropped = 1

====
